---------------------------- MODULE Spec2Model ----------------------------
(***************************************************************************)
(* The MOSES metapopulation (metapopulation.h): the store of scored trees, *)
(* the exemplar selector, the deme cycle create_deme / optimize_deme /     *)
(* close_deme, the Pareto (behavioral score) filter and the merger.        *)
(*                                                                         *)
(* Scores are integers.  Weighted scores are kept in units of 1/WUnit so   *)
(* that the diversity penalty 1/(1+distance) and the complexity weight     *)
(* stay integral.                                                          *)
(***************************************************************************)
EXTENDS Integers, Sequences, FiniteSets, TLC

VARIABLES
    params,              \* metapop_parameters
    empty_reps,          \* trees whose representation has an empty field set
    unscored,            \* trees the scorer gives no valid score
    metapop,             \* *this: the bscored_combo_tree_set, in iteration order
    n_evals,             \* _n_evals
    n_expansions,        \* _n_expansions
    evals_before,        \* _evals_before_this_deme
    best_cscore,         \* _best_cscore
    best_candidates,     \* _best_candidates
    visited,             \* _visited_exemplars
    rep,                 \* _rep: NULL, or the representation (the tree it was built from)
    deme,                \* _deme: NULL, or the deme (its instances)
    exemplar,            \* _exemplar
    pc,                  \* where the driver thread is
    ret,                 \* what the last call of expand returned
    selected,            \* what the last call of select_exemplar returned
    n_clears,            \* clears of the visited set by the current create_deme
    call                 \* what the last merge did; or a function applied directly

vars == << params, empty_reps, unscored, metapop, n_evals, n_expansions, evals_before,
           best_cscore, best_candidates, visited, rep, deme, exemplar, pc,
           ret, selected, n_clears, call >>

---------------------------------------------------------------------------
(* Bounds of the model. *)

NTrees == 4           \* the trees are 1..NTrees
MaxDeme == 2          \* instances the optimiser leaves in a deme
MaxExpansions == 2    \* expansions explored
MaxClears == 2        \* n_clears saturates here
MaxBLen == 3          \* behavioral score length, where dominates is applied directly
MaxBVal == 2          \* behavioral score entries 0..MaxBVal there
MaxSet == 4           \* candidates handed to remove_dominated directly
MaxSetVal == 3        \* behavioral score entries 1..MaxSetVal there
MaxStore == 3         \* trees of a store that insert is applied to directly
MaxBest == 5          \* trees of the candidates update_best_candidates is applied to
MaxExtract == 3       \* instances of a deme the extraction workers share
NWorkers == 2         \* extraction workers
MaxPool == 6          \* trees of a store the size cap is applied to directly
MaxNd == 2            \* entries of the store and of the candidates merge_nondominated is given
MaxTrim == 4          \* instances of a deme trimmed directly
MaxMerge == 6         \* trees shared out between a store and two candidate sets

Trees == 1 .. NTrees

NULL == << >>         \* a pointer is << >> or << what it points at >>
NoTree == 0           \* end(): no exemplar

Min(a, b) == IF a < b THEN a ELSE b
Max(a, b) == IF a > b THEN a ELSE b
Abs(a) == IF a < 0 THEN 0 - a ELSE a

---------------------------------------------------------------------------
(* Score algebra. *)

\* worst_score = -(max - 1): below every score a scorer returns.
worst_score == 0 - 1000

\* The weighted score of a composite score is s - d - k*c; kept here in
\* units of 1/WUnit, with k = ComplexityWeight/WUnit.
WUnit == 30
ComplexityWeight == 6

get_weighted_score(cs) == WUnit * cs.s - cs.d - ComplexityWeight * cs.c

\* The order of composite scores: w descending, then higher s, then lower c.
cscore_greater(a, b) ==
    LET wa == get_weighted_score(a)
        wb == get_weighted_score(b)
    IN  \/ wa > wb
        \/ wa = wb /\ a.s > b.s
        \/ wa = wb /\ a.s = b.s /\ a.c < b.c

\* lp_distance(a, b, 1.0): the L1 distance.
RECURSIVE lp_sum(_, _, _)
lp_sum(a, b, i) ==
    IF i > Min(Len(a), Len(b)) THEN 0
    ELSE Abs(a[i] - b[i]) + lp_sum(a, b, i + 1)

lp_distance(a, b) == lp_sum(a, b, 1)

\* A tribool.
TriTrue == "true"
TriFalse == "false"
Indeterminate == "indeterminate"

(* dominates(x, y): true if x dominates y, false if y dominates x,
   indeterminate otherwise. *)
RECURSIVE dominates_loop(_, _, _, _)
dominates_loop(x, y, i, res) ==
    IF i > Len(x) THEN res
    ELSE IF x[i] > y[i]
         THEN IF res = TriFalse THEN Indeterminate
              ELSE dominates_loop(x, y, i + 1, TriTrue)
    ELSE IF y[i] > x[i]
         THEN IF res = TriTrue THEN Indeterminate
              ELSE dominates_loop(x, y, i + 1, TriFalse)
    ELSE dominates_loop(x, y, i + 1, res)

\* dominates without its test for empty vectors
dominates_empty_indeterminate(x, y) ==
    IF x = << >> \/ y = << >> THEN Indeterminate
    ELSE dominates_loop(x, y, 1, Indeterminate)

\* dominates with the verdict for an empty x turned round
dominates_empty_first(x, y) ==
    IF x = << >>
    THEN IF y = << >> THEN Indeterminate ELSE TriTrue
    ELSE IF y = << >> THEN TriTrue
    ELSE dominates_loop(x, y, 1, Indeterminate)

dominates(x, y) ==
    IF x = << >>
    THEN IF y = << >> THEN Indeterminate ELSE TriFalse
    ELSE IF y = << >> THEN TriTrue
    ELSE dominates_loop(x, y, 1, Indeterminate)

---------------------------------------------------------------------------
(* The external collaborators: pure scorers over the trees. *)

BTable == << <<1, 3>>, <<2, 2>>, <<3, 1>>, <<2, 3>>, <<3, 3>>, <<1, 3>> >>
CTable == << 1, 2, 2, 0, 1, 3 >>

\* _bscorer(tree): one error per training example.
bscorer(t) ==
    IF t <= Len(BTable) THEN BTable[t]
    ELSE << 1 + (t % 3), 1 + ((t \div 3) % 3) >>

tree_complexity(t) == IF t <= Len(CTable) THEN CTable[t] ELSE 1 + (t % 3)

\* _cscorer(tree): the raw score is minus the total error; the worst score
\* where the scorer could not evaluate the tree.
cscorer(t) ==
    LET b == bscorer(t)
    IN  [s |-> IF t \in unscored THEN worst_score ELSE 0 - (b[1] + b[2]),
         c |-> tree_complexity(t), d |-> 0]

\* A bscored_combo_tree: the tree, its behavioral score (possibly empty)
\* and its composite score.
Entry(t, bs, cs) == [tree |-> t, bs |-> bs, s |-> cs.s, c |-> cs.c, d |-> cs.d]

get_tree(e) == e.tree
get_bscore(e) == e.bs
get_composite_score(e) == [s |-> e.s, c |-> e.c, d |-> e.d]

TreesOf(seq) == { seq[i].tree : i \in 1 .. Len(seq) }

---------------------------------------------------------------------------
(* The candidate store, bscored_combo_tree_set: entries ordered by composite
   score, keyed by their tree. *)

RemoveAt(seq, i) == SubSeq(seq, 1, i - 1) \o SubSeq(seq, i + 1, Len(seq))

InsertAt(seq, i, e) == SubSeq(seq, 1, i - 1) \o << e >> \o SubSeq(seq, i, Len(seq))

\* find keyed on the whole entry, tree and composite score
StoreFind_by_entry(M, e) ==
    LET Same(i) == /\ M[i].tree = e.tree
                   /\ get_composite_score(M[i]) = get_composite_score(e)
    IN  IF \E i \in 1 .. Len(M) : Same(i)
        THEN CHOOSE i \in 1 .. Len(M) : Same(i)
        ELSE 0

\* find(e): the position of the entry that holds e's tree, 0 for end().
StoreFind(M, e) ==
    IF \E i \in 1 .. Len(M) : M[i].tree = e.tree
    THEN CHOOSE i \in 1 .. Len(M) : M[i].tree = e.tree
    ELSE 0

\* The place of a new entry: behind every entry it does not precede.
OrderedInsert(M, e) ==
    LET n == Cardinality({ i \in 1 .. Len(M) :
                             ~ cscore_greater(get_composite_score(e),
                                              get_composite_score(M[i])) })
    IN  InsertAt(M, n + 1, e)

\* insert that leaves the entry in the store where it is on every conflict
StoreInsert_keep(M, e) ==
    IF StoreFind(M, e) = 0 THEN OrderedInsert(M, e) ELSE M

\* insert(e): on a conflict the incoming entry replaces the one in the
\* store iff its weighted score is strictly greater.
StoreInsert(M, e) ==
    LET i == StoreFind(M, e)
    IN  IF i = 0 THEN OrderedInsert(M, e)
        ELSE IF get_weighted_score(get_composite_score(e))
                  > get_weighted_score(get_composite_score(M[i]))
             THEN OrderedInsert(RemoveAt(M, i), e)
        ELSE M

\* insert(first, last)
RECURSIVE StoreInsertRange(_, _)
StoreInsertRange(M, seq) ==
    IF seq = << >> THEN M
    ELSE StoreInsertRange(StoreInsert(M, Head(seq)), Tail(seq))

\* erase(e), by key
StoreErase(M, e) ==
    LET i == StoreFind(M, e)
    IN  IF i = 0 THEN M ELSE RemoveAt(M, i)

RECURSIVE StoreEraseAll(_, _)
StoreEraseAll(M, seq) ==
    IF seq = << >> THEN M
    ELSE StoreEraseAll(StoreErase(M, Head(seq)), Tail(seq))

\* A set built from the entries a given set of trees stands for.
RECURSIVE SeqOfSet(_)
SeqOfSet(S) ==
    IF S = {} THEN << >>
    ELSE LET x == CHOOSE y \in S : \A z \in S : y.tree <= z.tree
         IN  << x >> \o SeqOfSet(S \ {x})

---------------------------------------------------------------------------
(* The Pareto front.  A vector of pointers to entries is a sequence of
   entries; within one call the entries pointed at hold distinct trees. *)

\* boost::sort on pointers: the order of the addresses.
RECURSIVE SortPtr(_)
SortPtr(bcv) ==
    IF bcv = << >> THEN << >>
    ELSE LET i == CHOOSE j \in 1 .. Len(bcv) :
                      \A k \in 1 .. Len(bcv) : bcv[j].tree <= bcv[k].tree
         IN  << bcv[i] >> \o SortPtr(RemoveAt(bcv, i))

set_difference(a, b) ==
    LET Keep(e) == e.tree \notin TreesOf(b) IN SelectSeq(a, Keep)

set_intersection(a, b) ==
    LET Keep(e) == e.tree \in TreesOf(b) IN SelectSeq(a, Keep)

\* split in 2 of equal size
split(bcv) ==
    << SubSeq(bcv, 1, Len(bcv) \div 2),
       SubSeq(bcv, (Len(bcv) \div 2) + 1, Len(bcv)) >>

\* split_jobs(jobs): the job budget is halved at each split
split_jobs(jobs) == << jobs \div 2, Max(1, jobs - (jobs \div 2)) >>

\* The loop of the base case of get_nondominated_disjoint_rec: e1 is the
\* sole element of bcv1; the result is << it1_insert, bcv_res2 >>.
RECURSIVE disjoint_base(_, _, _, _)
disjoint_base(e1, bcv2, i, res2) ==
    IF i > Len(bcv2) THEN << TRUE, res2 >>
    ELSE LET dom == dominates(get_bscore(e1), get_bscore(bcv2[i]))
         IN  IF dom = TriFalse
             THEN << FALSE, res2 \o SubSeq(bcv2, i, Len(bcv2)) >>
             ELSE IF dom = Indeterminate
                  THEN disjoint_base(e1, bcv2, i + 1, Append(res2, bcv2[i]))
             ELSE disjoint_base(e1, bcv2, i + 1, res2)

\* get_nondominated_disjoint_rec whose parallel branch keeps what the second
\* task left of bcv2, without the intersection
RECURSIVE get_nondominated_disjoint_rec_no_inter(_, _, _)
get_nondominated_disjoint_rec_no_inter(bcv1, bcv2, jobs) ==
    IF bcv1 = << >> \/ bcv2 = << >> THEN << bcv1, bcv2 >>
    ELSE IF Len(bcv1) = 1
    THEN LET r == disjoint_base(bcv1[1], bcv2, 1, << >>)
         IN  << IF r[1] THEN << bcv1[1] >> ELSE << >>, r[2] >>
    ELSE LET bcv1_p == split(bcv1)
         IN  IF jobs > 1
             THEN LET jobs1 == jobs \div 2
                      jobs2 == Max(1, jobs - jobs1)
                      bcv_m2 == get_nondominated_disjoint_rec_no_inter(bcv1_p[2], bcv2, jobs2)
                      bcv_m1 == get_nondominated_disjoint_rec_no_inter(bcv1_p[1], bcv2, jobs1)
                  IN  << bcv_m1[1] \o bcv_m2[1], SortPtr(bcv_m2[2]) >>
             ELSE LET bcv_m1 == get_nondominated_disjoint_rec_no_inter(bcv1_p[1], bcv2, 1)
                      bcv_m2 == get_nondominated_disjoint_rec_no_inter(bcv1_p[2], bcv_m1[2], 1)
                  IN  << bcv_m1[1] \o bcv_m2[1], bcv_m2[2] >>

RECURSIVE get_nondominated_disjoint_rec(_, _, _)
get_nondominated_disjoint_rec(bcv1, bcv2, jobs) ==
    IF bcv1 = << >> \/ bcv2 = << >> THEN << bcv1, bcv2 >>
    ELSE IF Len(bcv1) = 1
    THEN LET r == disjoint_base(bcv1[1], bcv2, 1, << >>)
         IN  << IF r[1] THEN << bcv1[1] >> ELSE << >>, r[2] >>
    ELSE LET bcv1_p == split(bcv1)
         IN  IF jobs > 1
             THEN LET jobs1 == jobs \div 2
                      jobs2 == Max(1, jobs - jobs1)
                      bcv_m2 == get_nondominated_disjoint_rec(bcv1_p[2], bcv2, jobs2)
                      bcv_m1 == get_nondominated_disjoint_rec(bcv1_p[1], bcv2, jobs1)
                  IN  << bcv_m1[1] \o bcv_m2[1],
                         set_intersection(SortPtr(bcv_m1[2]), SortPtr(bcv_m2[2])) >>
             ELSE LET bcv_m1 == get_nondominated_disjoint_rec(bcv1_p[1], bcv2, 1)
                      bcv_m2 == get_nondominated_disjoint_rec(bcv1_p[2], bcv_m1[2], 1)
                  IN  << bcv_m1[1] \o bcv_m2[1], bcv_m2[2] >>

RECURSIVE get_nondominated_rec(_, _)
get_nondominated_rec(bcv, jobs) ==
    IF Len(bcv) < 2 THEN bcv
    ELSE LET bcv_p == split(bcv)
         IN  IF jobs > 1
             THEN LET s_jobs == split_jobs(jobs)
                      bcv1_nd == get_nondominated_rec(bcv_p[1], s_jobs[1])
                      bcv2_nd == get_nondominated_rec(bcv_p[2], s_jobs[2])
                      res_p == get_nondominated_disjoint_rec(bcv1_nd, bcv2_nd, jobs)
                  IN  res_p[1] \o res_p[2]
             ELSE LET bcv1_nd == get_nondominated_rec(bcv_p[1], 1)
                      bcv2_nd == get_nondominated_rec(bcv_p[2], 1)
                      res_p == get_nondominated_disjoint_rec(bcv1_nd, bcv2_nd, 1)
                  IN  res_p[1] \o res_p[2]

\* remove_dominated(bcs, jobs): bcs without its dominated entries
remove_dominated(bcs, jobs) ==
    LET res == get_nondominated_rec(bcs, jobs)
        dif == set_difference(SortPtr(bcs), SortPtr(res))
    IN  StoreEraseAll(bcs, dif)

\* merge_nondominated inserting every candidate, the dominated ones too
merge_nondominated_insert_all(M, bcs, jobs) ==
    LET bcv_p == get_nondominated_disjoint_rec(bcs, M, jobs)
        diff_bcv_mp == set_difference(SortPtr(M), SortPtr(bcv_p[2]))
    IN  StoreInsertRange(StoreEraseAll(M, diff_bcv_mp), bcs)

\* merge_nondominated(bcs, jobs): the metapopulation after the merge
merge_nondominated(M, bcs, jobs) ==
    LET bcv_p == get_nondominated_disjoint_rec(bcs, M, jobs)
        diff_bcv_mp == set_difference(SortPtr(M), SortPtr(bcv_p[2]))
    IN  StoreInsertRange(StoreEraseAll(M, diff_bcv_mp), bcv_p[1])

---------------------------------------------------------------------------
(* Exemplar selection. *)

complexity_temperature == 3

\* useful_score_range() = complexity_temperature * 30 / 100, in units of 1/WUnit
useful_score_range == (complexity_temperature * 30 * WUnit) \div 100

\* expf(x) of a float is 0 below about -103.97; diff is p - highest_score in
\* units of 1/WUnit and the argument of expf is diff * inv_temp.
expf_positive(diff) == diff * 100 * 100 >= 0 - (10397 * WUnit * complexity_temperature)

\* UNEVALUATED_SCORE (-1.0e37): below every weighted score of a valid
\* score, above the weighted score of the worst score.
UNEVALUATED_SCORE == 0 - 10000

NoExemplar == Entry(NoTree, << >>, [s |-> 0, c |-> 0, d |-> 0])

\* the penalty written into the entries where they stand
RECURSIVE diversity_pool_in_place(_, _, _)
diversity_pool_in_place(M, ex, pool) ==
    IF M = << >> THEN pool
    ELSE LET it == Head(M)
             penalty == WUnit \div (1 + lp_distance(get_bscore(ex), get_bscore(it)))
             cs == [get_composite_score(it) EXCEPT !.d = penalty]
         IN  diversity_pool_in_place(Tail(M), ex,
                 Append(pool, Entry(get_tree(it), get_bscore(it), cs)))

\* the penalty added to the one the entry already carries
RECURSIVE diversity_pool_accumulate(_, _, _)
diversity_pool_accumulate(M, ex, pool) ==
    IF M = << >> THEN pool
    ELSE LET it == Head(M)
             penalty == WUnit \div (1 + lp_distance(get_bscore(ex), get_bscore(it)))
             cs == [get_composite_score(it) EXCEPT !.d = @ + penalty]
         IN  diversity_pool_accumulate(Tail(M), ex,
                 StoreInsert(pool, Entry(get_tree(it), get_bscore(it), cs)))

\* the pool built from tree and composite score alone
RECURSIVE diversity_pool_no_bscore(_, _, _)
diversity_pool_no_bscore(M, ex, pool) ==
    IF M = << >> THEN pool
    ELSE LET it == Head(M)
             penalty == WUnit \div (1 + lp_distance(get_bscore(ex), get_bscore(it)))
             cs == [get_composite_score(it) EXCEPT !.d = penalty]
         IN  diversity_pool_no_bscore(Tail(M), ex,
                 StoreInsert(pool, Entry(get_tree(it), << >>, cs)))

\* The pool the diversity penalty makes of the metapopulation: every entry
\* with the penalty 1 / (1 + distance to the previous exemplar).
RECURSIVE diversity_pool(_, _, _)
diversity_pool(M, ex, pool) ==
    IF M = << >> THEN pool
    ELSE LET it == Head(M)
             penalty == WUnit \div (1 + lp_distance(get_bscore(ex), get_bscore(it)))
             cs == [get_composite_score(it) EXCEPT !.d = penalty]
         IN  diversity_pool(Tail(M), ex,
                            StoreInsert(pool, Entry(get_tree(it), get_bscore(it), cs)))

\* highest_score: the highest weighted score of the entries not visited,
\* starting from UNEVALUATED_SCORE.
RECURSIVE highest_score(_, _, _, _)
highest_score(M, V, i, highest) ==
    IF i > Len(M) THEN highest
    ELSE LET sc == get_weighted_score(get_composite_score(M[i]))
         IN  highest_score(M, V, i + 1,
                           IF M[i].tree \notin V /\ highest < sc THEN sc ELSE highest)

\* probs with the visited entries given their score too
probs_positive_no_skip(M, V) ==
    LET sc(i) == get_weighted_score(get_composite_score(M[i]))
        highest == highest_score(M, V, 1, UNEVALUATED_SCORE)
    IN  { i \in 1 .. Len(M) : expf_positive(sc(i) - highest) }

\* probs after the conversion to probabilities: the positions with a
\* probability above 0.
probs_positive(M, V) ==
    LET sc(i) == get_weighted_score(get_composite_score(M[i]))
        highest == highest_score(M, V, 1, UNEVALUATED_SCORE)
    IN  { i \in 1 .. Len(M) : M[i].tree \notin V /\ expf_positive(sc(i) - highest) }

\* found_exemplar
found_exemplar(M, V) == \E i \in 1 .. Len(M) : M[i].tree \notin V

\* roulette_select: a position drawn with its probability
roulette_select(positive) == positive

\* select_exemplar(): the metapopulation it leaves, and the positions it may
\* return; no position stands for end().
select_exemplar(M, V, ex, p) ==
    IF Len(M) = 1 /\ M[1].tree \notin V
    THEN [metapop |-> M, choices |-> {1}]
    ELSE LET M1 == IF p.use_diversity_penalty
                   THEN diversity_pool(M, ex, << >>)
                   ELSE M
         IN  [metapop |-> M1,
              choices |-> IF found_exemplar(M1, V)
                          THEN roulette_select(probs_positive(M1, V))
                          ELSE {}]

\* OC_ASSERT(bs.size(), "Behavioral score is needed for diversity!") and
\* OC_ASSERT(sum > 0.0f, "There is an internal bug, please fix it")
select_exemplar_asserts(M, V, ex, p) ==
    \/ Len(M) = 1 /\ M[1].tree \notin V
    \/ /\ p.use_diversity_penalty => \A i \in 1 .. Len(M) : get_bscore(M[i]) # << >>
       /\ LET M1 == IF p.use_diversity_penalty
                    THEN diversity_pool(M, ex, << >>)
                    ELSE M
          IN  found_exemplar(M1, V) => probs_positive(M1, V) # {}

---------------------------------------------------------------------------
(* The best record. *)

worst_composite_score == [s |-> worst_score, c |-> 0, d |-> 0]

\* update_best_candidates taking the lower complexity whatever the score
RECURSIVE update_best_by_complexity(_, _, _)
update_best_by_complexity(best, bests, candidates) ==
    IF candidates = << >> THEN << best, bests >>
    ELSE LET it == Head(candidates)
             better == it.s > best.s \/ it.c < best.c
             best1 == IF better THEN get_composite_score(it) ELSE best
             bests1 == IF better THEN {it} ELSE bests
         IN  update_best_by_complexity(best1, bests1, Tail(candidates))

\* update_best_candidates without the clear of _best_candidates
RECURSIVE update_best_no_clear(_, _, _)
update_best_no_clear(best, bests, candidates) ==
    IF candidates = << >> THEN << best, bests >>
    ELSE LET it == Head(candidates)
             better == it.s > best.s \/ (it.s = best.s /\ it.c < best.c)
             no_worse == it.s > best.s \/ (it.s = best.s /\ it.c <= best.c)
             best1 == IF better THEN get_composite_score(it) ELSE best
             bests1 == IF no_worse /\ it.tree \notin { b.tree : b \in bests }
                       THEN bests \cup {it}
                       ELSE bests
         IN  update_best_no_clear(best1, bests1, Tail(candidates))

\* update_best_candidates(candidates): << _best_cscore, _best_candidates >>
RECURSIVE update_best_candidates(_, _, _)
update_best_candidates(best, bests, candidates) ==
    IF candidates = << >> THEN << best, bests >>
    ELSE LET it == Head(candidates)
             sc == it.s
             cpx == it.c
             better == sc > best.s \/ (sc = best.s /\ cpx < best.c)
             no_worse == sc > best.s \/ (sc = best.s /\ cpx <= best.c)
             best1 == IF better THEN get_composite_score(it) ELSE best
             bests1 == IF better THEN {} ELSE bests
             bests2 == IF no_worse /\ it.tree \notin { b.tree : b \in bests1 }
                       THEN bests1 \cup {it}
                       ELSE bests1
         IN  update_best_candidates(best1, bests2, Tail(candidates))

---------------------------------------------------------------------------
(* The merger. *)

\* The pool sizes of the source (MIN_POOL_SIZE 250, OFFSET 50, a cap of 37500
\* before the first expansion) are scaled down to the few trees explored,
\* keeping OFFSET < MIN_POOL_SIZE <= cap.
MIN_POOL_SIZE == 2
OFFSET == 1
POPSZ_CAP0 == 3

\* popsz_cap = 50 * (n + 250) * (1 + 2 * exp(-n / 500)), which is
\* (n + 250) * (1500 - 2 * n) / 10 for the few expansions explored, scaled
\* down from 37500 to POPSZ_CAP0 before the first expansion.
popsz_cap(n) == (POPSZ_CAP0 * (n + 250) * (1500 - 2 * n)) \div (250 * 1500)

\* The bulk remove: from position MIN_POOL_SIZE on, the first entry below
\* worst_score and everything behind it go.
RECURSIVE bulk_trim_end(_, _, _)
bulk_trim_end(M, it, worst) ==
    IF it > Len(M) THEN it
    ELSE IF get_weighted_score(get_composite_score(M[it])) < worst THEN it
    ELSE bulk_trim_end(M, it + 1, worst)

\* the random eviction run once, as an if
cap_evictions_once(M, cap) ==
    IF ~ (cap < Len(M)) THEN {M}
    ELSE { RemoveAt(M, which + 1) : which \in OFFSET .. (Len(M) - 1) }

\* the random eviction without the offset
RECURSIVE cap_evictions_no_offset(_, _)
cap_evictions_no_offset(M, cap) ==
    IF ~ (cap < Len(M)) THEN {M}
    ELSE UNION { cap_evictions_no_offset(RemoveAt(M, which + 1), cap) :
                   which \in 0 .. (Len(M) - 1) }

\* The random eviction: every metapopulation the loop may leave.
RECURSIVE cap_evictions(_, _)
cap_evictions(M, cap) ==
    IF ~ (cap < Len(M)) THEN {M}
    ELSE UNION { cap_evictions(RemoveAt(M, which + 1), cap) :
                   which \in OFFSET .. (Len(M) - 1) }

\* merge_candidates up to the cap: the candidates inserted, with or without
\* the domination filter.
merge_insert(M, candidates, p) ==
    IF p.include_dominated
    THEN StoreInsertRange(M, candidates)
    ELSE merge_nondominated(M, candidates, p.jobs)

\* the bulk remove starting at the head
merge_trim_from_head(M1) ==
    IF Len(M1) < MIN_POOL_SIZE THEN M1
    ELSE LET top_score == get_weighted_score(get_composite_score(M1[1]))
             worst == top_score - useful_score_range
             it == bulk_trim_end(M1, 1, worst)
         IN  SubSeq(M1, 1, it - 1)

\* merge_candidates up to the cap: the bulk remove of the lowest scores.
merge_trim(M1) ==
    IF Len(M1) < MIN_POOL_SIZE THEN M1
    ELSE LET top_score == get_weighted_score(get_composite_score(M1[1]))
             worst == top_score - useful_score_range
             it == bulk_trim_end(M1, MIN_POOL_SIZE + 1, worst)
         IN  SubSeq(M1, 1, it - 1)

\* the random eviction left out
merge_candidates_no_cap(M, candidates, p, n_exp) ==
    { merge_trim(merge_insert(M, candidates, p)) }

\* merge_candidates(candidates): every metapopulation it may leave
merge_candidates(M, candidates, p, n_exp) ==
    LET M1 == merge_insert(M, candidates, p)
    IN  IF Len(M1) < MIN_POOL_SIZE THEN {M1}
        ELSE cap_evictions(merge_trim(M1), popsz_cap(n_exp))

\* What the last merge did: the trees it was handed, what the merge
\* callback had answered, the entries the bulk remove erased and the entries
\* the random eviction erased.
merge_record(M, candidates, p, n_exp, done) ==
    LET M1 == merge_insert(M, candidates, p)
        M2 == merge_trim(M1)
    IN  [op |-> "merge_candidates",
         candidates |-> TreesOf(candidates),
         done |-> done,
         trimmed |-> Len(M1) - Len(M2),
         evicted |-> IF Len(M1) < MIN_POOL_SIZE THEN 0
                     ELSE Max(0, Len(M2) - popsz_cap(n_exp))]

---------------------------------------------------------------------------
(* The deme. An instance of the deme is the tree its knob settings stand for
   and the composite score the optimiser gave it. *)

\* An instance that was scored, and one that was not; the tree of an
\* instance that was not scored is never looked at.
Instance(t, valid) ==
    [tree |-> t,
     csc |-> IF valid THEN cscorer(t) ELSE worst_composite_score]

Instances == { Instance(t, TRUE) : t \in Trees } \cup { Instance(1, FALSE) }

\* The deme after std::sort with std::greater: no instance precedes one
\* with a greater composite score.
SortedDemesUpTo(m) ==
    { d \in UNION { [1 .. n -> Instances] : n \in 0 .. m } :
        \A i, j \in 1 .. Len(d) : i < j => ~ cscore_greater(d[j].csc, d[i].csc) }

SortedDemes == SortedDemesUpTo(MaxDeme)

\* The trimming loop of close_deme: i runs from the last index down to 1,
\* popping the back whenever instance i is below bot_sc.
RECURSIVE trim_deme_loop(_, _, _)
trim_deme_loop(d, i, bot_sc) ==
    IF ~ (0 < i) THEN d
    ELSE IF get_weighted_score(d[i + 1].csc) < bot_sc
         THEN trim_deme_loop(SubSeq(d, 1, Len(d) - 1), i - 1, bot_sc)
    ELSE trim_deme_loop(d, i - 1, bot_sc)

\* the trim with the top score for the bottom score
trim_deme_no_range(d) ==
    IF MIN_POOL_SIZE < Len(d)
    THEN trim_deme_loop(d, Len(d) - 1, get_weighted_score(d[1].csc))
    ELSE d

trim_deme(d) ==
    IF MIN_POOL_SIZE < Len(d)
    THEN trim_deme_loop(d, Len(d) - 1,
                        get_weighted_score(d[1].csc) - useful_score_range)
    ELSE d

\* select_candidates over the instances in turn: pot_candidates, a map from
\* trees to scores, as the set of its entries.
RECURSIVE select_candidates(_, _, _, _)
select_candidates(insts, V, max_candidates, pot) ==
    IF insts = << >> THEN pot
    ELSE LET inst == Head(insts)
             inst_sc == inst.csc.s
             tr == inst.tree
             pot1 == IF inst_sc <= worst_score THEN pot
                     ELSE IF ~ (max_candidates < 0 \/ Cardinality(pot) < max_candidates)
                     THEN pot
                     ELSE IF tr \notin V /\ tr \notin { c.tree : c \in pot }
                     THEN pot \cup { Entry(tr, << >>, inst.csc) }
                     ELSE pot
         IN  select_candidates(Tail(insts), V, max_candidates, pot1)

\* compute_bscore over pot_candidates
compute_bscore(pot, p) ==
    IF ~ p.include_dominated \/ p.use_diversity_penalty
    THEN { Entry(c.tree, bscorer(c.tree), get_composite_score(c)) : c \in pot }
    ELSE pot

\* get_new_candidates(mcs): the candidates not present in the metapopulation
get_new_candidates(M, mcs) ==
    StoreInsertRange(<< >>, SeqOfSet({ cnd \in mcs : StoreFind(M, cnd) = 0 }))

---------------------------------------------------------------------------
(* The metapopulation as a state machine. *)

NoCall == [op |-> "none"]

\* metapop_parameters
\* jobs is read by the Pareto filter only.
ParamSpace ==
    { p \in [max_candidates : {0 - 1, 1},
             revisit : BOOLEAN,
             include_dominated : BOOLEAN,
             use_diversity_penalty : BOOLEAN,
             jobs : {1, 2},
             merge_callback : {FALSE}] :
        p.include_dominated => p.jobs = 1 }

\* metapop_parameters with a merge callback set
CallbackParamSpace ==
    { [p EXCEPT !.merge_callback = TRUE] :
        p \in { q \in ParamSpace : q.jobs = 1 /\ q.max_candidates < 0 } }

\* metapop_parameters(): the defaults
DefaultParams ==
    [max_candidates |-> 0 - 1, revisit |-> FALSE, include_dominated |-> TRUE,
     use_diversity_penalty |-> FALSE, jobs |-> 1, merge_callback |-> FALSE]

\* The member initialisers of the constructor, before init(bases) runs.
Constructed ==
    /\ metapop = << >>
    /\ n_evals = 0
    /\ n_expansions = 0
    /\ evals_before = 0
    /\ best_cscore = worst_composite_score
    /\ best_candidates = {}
    /\ visited = {}
    /\ rep = NULL
    /\ deme = NULL
    /\ exemplar = NoExemplar
    /\ ret = "none"
    /\ selected = NoTree
    /\ n_clears = 0

\* The metapopulation about to be constructed, with parameters in P and a
\* scorer that fails on one of the sets of trees in U.
Start(P, U) ==
    /\ params \in P
    /\ empty_reps \in { {}, {1, 2}, Trees }
    /\ unscored \in U
    /\ Constructed
    /\ pc = "construct"
    /\ call = NoCall

Init == Start(ParamSpace, { {} })

\* init(exemplars), called by the constructor
init(exemplars) ==
    LET candidates == { Entry(si_base, bscorer(si_base), cscorer(si_base)) :
                          si_base \in exemplars }
        mps == StoreInsertRange(<< >>, SeqOfSet(candidates))
        best == update_best_candidates(best_cscore, best_candidates, mps)
    IN  /\ best_cscore' = best[1]
        /\ best_candidates' = best[2]
        /\ metapop' \in merge_candidates(metapop, mps, params, n_expansions)
        /\ call' = merge_record(metapop, mps, params, n_expansions, FALSE)

Construct ==
    /\ pc = "construct"
    /\ \E exemplars \in SUBSET Trees : init(exemplars)
    /\ pc' = "idle"
    /\ UNCHANGED << params, empty_reps, unscored, n_evals, n_expansions, evals_before,
                    visited, rep, deme, exemplar, ret, selected, n_clears >>

\* expand(max_evals) up to the loop of create_deme: create_deme returns
\* false at once when a deme is open or the metapopulation is empty.
ExpandEnter ==
    /\ pc = "idle"
    /\ n_expansions < MaxExpansions
    /\ IF rep # NULL \/ deme # NULL \/ metapop = << >>
       THEN /\ ret' = "false"
            /\ UNCHANGED << pc, n_clears >>
       ELSE /\ pc' = "create_deme"
            /\ n_clears' = 0
            /\ UNCHANGED ret
    /\ UNCHANGED << params, empty_reps, unscored, metapop, n_evals, n_expansions,
                    evals_before, best_cscore, best_candidates, visited, rep,
                    deme, exemplar, selected, call >>

\* _visited_exemplars.insert(get_tree(_exemplar)) where the representation
\* is empty
mark_empty_visited(V, ex) == V \cup {get_tree(ex)}

\* One pass of the do-while loop of create_deme; when the representation
\* is not empty create_deme returns true and expand counts the expansion.
CreateDemeLoop ==
    /\ pc = "create_deme"
    /\ IF ~ select_exemplar_asserts(metapop, visited, exemplar, params)
       THEN /\ pc' = "aborted"
            /\ UNCHANGED << metapop, n_expansions, evals_before, visited, rep,
                            deme, exemplar, ret, selected, n_clears >>
       ELSE LET sel == select_exemplar(metapop, visited, exemplar, params)
            IN  /\ metapop' = sel.metapop
                /\ IF sel.choices = {}
                   THEN /\ selected' = NoTree
                        /\ IF params.revisit
                           THEN /\ visited' = {}
                                /\ n_clears' = Min(n_clears + 1, MaxClears)
                                /\ UNCHANGED << pc, ret >>
                           ELSE /\ pc' = "idle"
                                /\ ret' = "false"
                                /\ UNCHANGED << visited, n_clears >>
                        /\ UNCHANGED << n_expansions, evals_before, rep, deme,
                                        exemplar >>
                   ELSE \E i \in sel.choices :
                        /\ exemplar' = sel.metapop[i]
                        /\ selected' = sel.metapop[i].tree
                        /\ IF sel.metapop[i].tree \in empty_reps
                           THEN /\ visited' = mark_empty_visited(visited, sel.metapop[i])
                                /\ UNCHANGED << pc, n_expansions, evals_before,
                                                rep, deme >>
                           ELSE /\ rep' = << sel.metapop[i].tree >>
                                /\ deme' = << << >> >>
                                /\ evals_before' = n_evals
                                /\ n_expansions' = n_expansions + 1
                                /\ pc' = "optimize_deme"
                                /\ UNCHANGED visited
                        /\ UNCHANGED << ret, n_clears >>
    /\ UNCHANGED << params, empty_reps, unscored, n_evals, best_cscore, best_candidates,
                    call >>

\* the optimiser throws and its evaluations are counted all the same
OptimizeThrowsCounted ==
    /\ pc = "optimize_deme"
    /\ pc' = "idle"
    /\ ret' = "threw"
    /\ n_evals' = n_evals + 1
    /\ UNCHANGED << params, empty_reps, unscored, metapop, n_expansions,
                    evals_before, best_cscore, best_candidates, visited, rep,
                    deme, exemplar, selected, n_clears, call >>

\* The optimiser throws: the exception leaves optimize_deme and expand.
OptimizeThrows ==
    /\ pc = "optimize_deme"
    /\ pc' = "idle"
    /\ ret' = "threw"
    /\ UNCHANGED << params, empty_reps, unscored, metapop, n_evals, n_expansions,
                    evals_before, best_cscore, best_candidates, visited, rep,
                    deme, exemplar, selected, n_clears, call >>

\* expand forgetting what close_deme returned
expand_returns_empty_only(done, M) == IF M = << >> THEN "true" ELSE "false"

\* return done || empty(), at the end of expand
expand_returns(done, M) == IF done \/ M = << >> THEN "true" ELSE "false"

\* the exemplar left unmarked
mark_visited_not(V, ex) == V

\* _visited_exemplars.insert(get_tree(_exemplar)) in close_deme
mark_visited(V, ex) == V \cup {get_tree(ex)}

\* close_deme() on the deme d the optimiser left, sorted; done is what the
\* merge callback answers.
close_deme(d, evals_now, done) ==
    LET eval_during0 == Min(evals_now - evals_before, Len(d))
        visited1 == mark_visited(visited, exemplar)
        d1 == trim_deme(d)
        eval_during == IF MIN_POOL_SIZE < Len(d)
                       THEN Min(eval_during0, Len(d1))
                       ELSE eval_during0
        pot == select_candidates(SubSeq(d1, 1, eval_during), visited1,
                                 params.max_candidates, {})
        pot_candidates == compute_bscore(pot, params)
        new_candidates == get_new_candidates(metapop, pot_candidates)
        candidates == IF ~ params.include_dominated
                      THEN remove_dominated(new_candidates, params.jobs)
                      ELSE new_candidates
        best == update_best_candidates(best_cscore, best_candidates, candidates)
    IN  /\ visited' = visited1
        /\ best_cscore' = best[1]
        /\ best_candidates' = best[2]
        /\ metapop' \in merge_candidates(metapop, candidates, params, n_expansions)
        /\ call' = merge_record(metapop, candidates, params, n_expansions, done)
                     @@ [evals |-> evals_now - n_evals]
        /\ deme' = NULL
        /\ rep' = NULL
        /\ ret' = expand_returns(done, metapop')

\* The rest of expand: the optimiser returns, the deme is closed.
OptimizeAndClose ==
    /\ pc = "optimize_deme"
    /\ \E d \in SortedDemes, done \in BOOLEAN :
       \E evals \in { Len(d), Max(Len(d) - 1, 0) } :
         /\ done => params.merge_callback
         /\ n_evals' = n_evals + evals
         /\ close_deme(d, n_evals + evals, done)
    /\ pc' = "idle"
    /\ UNCHANGED << params, empty_reps, unscored, n_expansions, evals_before, exemplar,
                    selected, n_clears >>

Next ==
    \/ Construct
    \/ ExpandEnter
    \/ CreateDemeLoop
    \/ OptimizeThrows
    \/ OptimizeAndClose

Spec == Init /\ [][Next]_vars

\* close_deme running whether or not a deme is open
close_deme_refused_never(r, d) == FALSE

\* if (_rep == NULL || _deme == NULL) return false, at the head of close_deme
close_deme_refused(r, d) == r = NULL \/ d = NULL

\* close_deme() called by the owner of the metapopulation between two
\* expansions. A deme left open by an optimiser that threw is closed with no
\* evaluation counted since create_deme.
CloseDemeCall ==
    /\ pc = "idle"
    /\ IF close_deme_refused(rep, deme)
       THEN /\ ret' = "false"
            /\ UNCHANGED << metapop, best_cscore, best_candidates, visited, rep,
                            deme, call >>
       ELSE \E d \in SortedDemes, done \in BOOLEAN :
              /\ done => params.merge_callback
              /\ close_deme(d, n_evals, done)
    /\ UNCHANGED << params, empty_reps, unscored, n_evals, n_expansions,
                    evals_before, exemplar, pc, selected, n_clears >>

\* expand and close_deme called in any order
NextOps == Next \/ CloseDemeCall

SpecOps == Init /\ [][NextOps]_vars

\* The same metapopulation with a scorer that returns the worst score for
\* one tree (the first time through, the score of an exemplar can be
\* invalid).
InitInvalid == Start(ParamSpace, { {1}, {2} })

SpecInvalid == InitInvalid /\ [][Next]_vars

\* The same metapopulation with a merge callback.
InitCallback == Start(CallbackParamSpace, { {} })

SpecCallback == InitCallback /\ [][Next]_vars

---------------------------------------------------------------------------
(* dominates applied directly to two behavioral scores, both ways round. *)

BScores(n) == [1 .. n -> 0 .. MaxBVal]

\* Two behavioral scores of one scorer: of the same length, unless empty.
BScorePairs ==
    { << x, y >> : x \in { << >> }, y \in UNION { BScores(n) : n \in 0 .. MaxBLen } }
    \cup { << x, y >> : x \in UNION { BScores(n) : n \in 1 .. MaxBLen }, y \in { << >> } }
    \cup UNION { BScores(n) \X BScores(n) : n \in 1 .. MaxBLen }

AtRest ==
    /\ params = DefaultParams
    /\ empty_reps = {}
    /\ unscored = {}
    /\ Constructed
    /\ pc = "call"

InitDominates ==
    /\ AtRest
    /\ \E xy \in BScorePairs :
         call = [op |-> "dominates", x |-> xy[1], y |-> xy[2],
                 res |-> "pending", rev |-> "pending"]

ApplyDominates ==
    /\ call.op = "dominates"
    /\ call.res = "pending"
    /\ call' = [call EXCEPT !.res = dominates(call.x, call.y)]
    /\ UNCHANGED << params, empty_reps, unscored, metapop, n_evals, n_expansions,
                    evals_before, best_cscore, best_candidates, visited, rep,
                    deme, exemplar, pc, ret, selected, n_clears >>

ApplyDominatesReversed ==
    /\ call.op = "dominates"
    /\ call.rev = "pending"
    /\ call' = [call EXCEPT !.rev = dominates(call.y, call.x)]
    /\ UNCHANGED << params, empty_reps, unscored, metapop, n_evals, n_expansions,
                    evals_before, best_cscore, best_candidates, visited, rep,
                    deme, exemplar, pc, ret, selected, n_clears >>

NextDominates == ApplyDominates \/ ApplyDominatesReversed

SpecDominates == InitDominates /\ [][NextDominates]_vars

---------------------------------------------------------------------------
(* dominates applied to two non-empty behavioral scores of different
   lengths.  The loop runs over x and reads y at the same positions: where y
   is the shorter one it reads past the end of y, unless it has returned
   before. *)

MismatchedPairs ==
    UNION { BScores(mn[1]) \X BScores(mn[2]) :
              mn \in { ln \in (1 .. MaxBLen) \X (1 .. MaxBLen) : ln[1] # ln[2] } }

\* What a call of dominates may do: return a verdict, or (reading past the
\* end of y) anything at all, a crash included.
dominates_outcomes(x, y) ==
    LET n == Min(Len(x), Len(y))
        returned_early == \E i, j \in 1 .. n : x[i] > y[i] /\ y[j] > x[j]
    IN  IF Len(x) <= Len(y) \/ returned_early
        THEN { dominates(SubSeq(x, 1, n), SubSeq(y, 1, n)) }
        ELSE { TriTrue, TriFalse, Indeterminate, "aborted" }

InitMismatch ==
    /\ AtRest
    /\ \E xy \in MismatchedPairs :
         call = [op |-> "dominates_mismatched", x |-> xy[1], y |-> xy[2],
                 res |-> "pending"]

ApplyDominatesMismatched ==
    /\ call.op = "dominates_mismatched"
    /\ call.res = "pending"
    /\ \E r \in dominates_outcomes(call.x, call.y) :
         call' = [call EXCEPT !.res = r]
    /\ UNCHANGED << params, empty_reps, unscored, metapop, n_evals,
                    n_expansions, evals_before, best_cscore, best_candidates,
                    visited, rep, deme, exemplar, pc, ret, selected, n_clears >>

NextMismatch == ApplyDominatesMismatched

SpecMismatch == InitMismatch /\ [][NextMismatch]_vars

---------------------------------------------------------------------------
(* insert applied directly to a store and a candidate, as merge_candidates
   and merge_nondominated call it. *)

\* No penalty, and the diversity penalties 1/(1+distance) of the distances
\* 4, 1 and 0.
Penalties == { 0, WUnit \div 5, WUnit \div 2, WUnit }

PenalizedEntry(tr, pen) ==
    Entry(tr, bscorer(tr), [cscorer(tr) EXCEPT !.d = pen])

\* The stores of the trees 1..MaxStore, each with any of the penalties.
Stores ==
    { StoreInsertRange(<< >>, SeqOfSet({ PenalizedEntry(tr, pen[tr]) : tr \in S })) :
        S \in SUBSET (1 .. MaxStore), pen \in [1 .. MaxStore -> Penalties] }

InitInsert ==
    /\ AtRest
    /\ \E M \in Stores, tr \in 1 .. MaxStore, pen \in Penalties :
         call = [op |-> "insert", M |-> M, e |-> PenalizedEntry(tr, pen),
                 done |-> FALSE, res |-> << >>]

ApplyInsert ==
    /\ call.op = "insert"
    /\ ~ call.done
    /\ call' = [call EXCEPT !.done = TRUE, !.res = StoreInsert(call.M, call.e)]
    /\ UNCHANGED << params, empty_reps, unscored, metapop, n_evals,
                    n_expansions, evals_before, best_cscore, best_candidates,
                    visited, rep, deme, exemplar, pc, ret, selected, n_clears >>

NextInsert == ApplyInsert

SpecInsert == InitInsert /\ [][NextInsert]_vars

---------------------------------------------------------------------------
(* update_best_candidates applied directly to a best record and a set of
   candidates. *)

ScoredEntry(tr) == Entry(tr, bscorer(tr), cscorer(tr))

\* The best record before anything was seen, and the best records of the
\* trees 1..MaxBest: the composite score of a tree and a non-empty set of
\* trees with that score and complexity.
BestRecords ==
    { << worst_composite_score, {} >> }
    \cup UNION { { << cscorer(tr), B >> :
                     B \in (SUBSET { ScoredEntry(u) : u \in
                                       { v \in 1 .. MaxBest :
                                           /\ cscorer(v).s = cscorer(tr).s
                                           /\ cscorer(v).c = cscorer(tr).c } })
                             \ { {} } } :
                  tr \in 1 .. MaxBest }

InitBest ==
    /\ AtRest
    /\ \E b \in BestRecords, S \in SUBSET (1 .. MaxBest) :
         call = [op |-> "update_best_candidates", best |-> b[1], bests |-> b[2],
                 candidates |-> StoreInsertRange(<< >>,
                                   SeqOfSet({ ScoredEntry(tr) : tr \in S })),
                 done |-> FALSE, res |-> << >>]

ApplyUpdateBest ==
    /\ call.op = "update_best_candidates"
    /\ ~ call.done
    /\ call' = [call EXCEPT
                  !.done = TRUE,
                  !.res = update_best_candidates(call.best, call.bests,
                                                 call.candidates)]
    /\ UNCHANGED << params, empty_reps, unscored, metapop, n_evals,
                    n_expansions, evals_before, best_cscore, best_candidates,
                    visited, rep, deme, exemplar, pc, ret, selected, n_clears >>

NextBest == ApplyUpdateBest

SpecBest == InitBest /\ [][NextBest]_vars

---------------------------------------------------------------------------
(* select_candidates run by the workers of OMP_ALGO::for_each over the first
   eval_during_this_deme instances of the sorted, trimmed deme.  A worker
   holds pot_cnd_mutex while it reads the size of pot_candidates, while it
   looks its tree up and while it assigns; between these it holds nothing. *)

Workers == 1 .. NWorkers

\* no instance taken for really bad
really_bad_never(inst_sc) == FALSE

\* if it's really bad stops
really_bad(inst_sc) == inst_sc <= worst_score

\* pot_candidates[tr] = cbsc
pot_assign(pot, tr, csc) ==
    { c \in pot : c.tree # tr } \cup { Entry(tr, << >>, csc) }

WorkerIdle == [pc |-> "idle", i |-> 0]

InitExtract ==
    /\ AtRest
    /\ \E d0 \in SortedDemesUpTo(MaxExtract), V \in { {}, {2} },
          max_candidates \in { 0 - 1, 1 } :
         LET d == trim_deme(d0)
         IN  \E n \in { Len(d), Max(Len(d) - 1, 0) } :
               call = [op |-> "select_candidates", deme |-> d, n |-> n,
                       V |-> V, max |-> max_candidates, todo |-> 1 .. n,
                       pot |-> {}, w |-> [k \in Workers |-> WorkerIdle],
                       returned |-> FALSE]

\* A worker takes an instance, returns at once if its score is really bad,
\* and reads pot_candidates.size() under the shared lock.
ExtractCheckSize(k) ==
    /\ call.op = "select_candidates"
    /\ call.w[k].pc = "idle"
    /\ \E i \in call.todo :
         LET inst_sc == call.deme[i].csc.s
             pot_candidates_size == Cardinality(call.pot)
             goes_on == /\ ~ really_bad(inst_sc)
                        /\ (call.max < 0 \/ pot_candidates_size < call.max)
         IN  call' = [call EXCEPT
                        !.todo = call.todo \ {i},
                        !.w[k] = IF goes_on THEN [pc |-> "checked", i |-> i]
                                 ELSE WorkerIdle]
    /\ UNCHANGED << params, empty_reps, unscored, metapop, n_evals,
                    n_expansions, evals_before, best_cscore, best_candidates,
                    visited, rep, deme, exemplar, pc, ret, selected, n_clears >>

\* The worker builds the tree and looks it up in the visited exemplars and,
\* under the shared lock, in pot_candidates.
ExtractFind(k) ==
    /\ call.op = "select_candidates"
    /\ call.w[k].pc = "checked"
    /\ LET tr == call.deme[call.w[k].i].tree
           not_already_visited == tr \notin call.V
           tr_not_found == tr \notin { c.tree : c \in call.pot }
       IN  call' = [call EXCEPT
                      !.w[k] = IF not_already_visited /\ tr_not_found
                               THEN [pc |-> "assign", i |-> call.w[k].i]
                               ELSE WorkerIdle]
    /\ UNCHANGED << params, empty_reps, unscored, metapop, n_evals,
                    n_expansions, evals_before, best_cscore, best_candidates,
                    visited, rep, deme, exemplar, pc, ret, selected, n_clears >>

\* The worker assigns under the unique lock.
ExtractAssign(k) ==
    /\ call.op = "select_candidates"
    /\ call.w[k].pc = "assign"
    /\ LET inst == call.deme[call.w[k].i]
       IN  call' = [call EXCEPT
                      !.pot = pot_assign(call.pot, inst.tree, inst.csc),
                      !.w[k] = WorkerIdle]
    /\ UNCHANGED << params, empty_reps, unscored, metapop, n_evals,
                    n_expansions, evals_before, best_cscore, best_candidates,
                    visited, rep, deme, exemplar, pc, ret, selected, n_clears >>

\* for_each returns: every instance was taken and every worker is back.
ExtractReturn ==
    /\ call.op = "select_candidates"
    /\ ~ call.returned
    /\ call.todo = {}
    /\ \A k \in Workers : call.w[k].pc = "idle"
    /\ call' = [call EXCEPT !.returned = TRUE]
    /\ UNCHANGED << params, empty_reps, unscored, metapop, n_evals,
                    n_expansions, evals_before, best_cscore, best_candidates,
                    visited, rep, deme, exemplar, pc, ret, selected, n_clears >>

NextExtract ==
    \/ \E k \in Workers : ExtractCheckSize(k) \/ ExtractFind(k) \/ ExtractAssign(k)
    \/ ExtractReturn

SpecExtract == InitExtract /\ [][NextExtract]_vars

\* for_each has returned.
ExtractDone == call.op = "select_candidates" /\ call.returned

---------------------------------------------------------------------------
(* The size cap of merge_candidates (the bulk remove, then the random
   eviction) applied directly to a store, twice in a row: merge_candidates
   with no candidate to insert. *)

\* The stores of the trees 1..MaxPool, each with no penalty or with the
\* diversity penalty of the distance 1 or 0.
Pools ==
    { StoreInsertRange(<< >>, SeqOfSet({ PenalizedEntry(tr, pen[tr]) : tr \in S })) :
        S \in SUBSET (1 .. MaxPool),
        pen \in [1 .. MaxPool -> { 0, WUnit \div 2, WUnit }] }

\* _n_expansions early and late: the cap is at its lowest and one above.
InitSizeCap ==
    /\ AtRest
    /\ \E M \in Pools, n \in { 0, 250 } :
         call = [op |-> "size_cap", M |-> M, n |-> n, applied |-> 0,
                 trimmed |-> << >>, first |-> << >>, second |-> << >>]

ApplySizeCap ==
    /\ call.op = "size_cap"
    /\ call.applied < 2
    /\ LET M == IF call.applied = 0 THEN call.M ELSE call.first
       IN  \E r \in merge_candidates(M, << >>, params, call.n) :
             call' = [call EXCEPT
                        !.applied = @ + 1,
                        !.trimmed = IF call.applied = 0 THEN merge_trim(M) ELSE @,
                        !.first = IF call.applied = 0 THEN r ELSE @,
                        !.second = IF call.applied = 1 THEN r ELSE @]
    /\ UNCHANGED << params, empty_reps, unscored, metapop, n_evals,
                    n_expansions, evals_before, best_cscore, best_candidates,
                    visited, rep, deme, exemplar, pc, ret, selected, n_clears >>

NextSizeCap == ApplySizeCap

SpecSizeCap == InitSizeCap /\ [][NextSizeCap]_vars

---------------------------------------------------------------------------
(* merge_candidates applied to a store and two sets of candidates, the one
   set first and then the other, in both orders. *)

\* The scorers over the trees 1..MaxMerge of this world: the behavioral
\* score and the complexity; the raw score is minus the total error.
MergeBTable == << <<3, 1>>, <<2, 3>>, <<3, 1>>, <<1, 3>>, <<2, 2>>, <<3, 3>> >>
MergeCTable == << 1, 2, 0, 2, 0, 0 >>

MergeEntry(tr) ==
    LET b == IF tr <= Len(MergeBTable) THEN MergeBTable[tr] ELSE bscorer(tr)
        c == IF tr <= Len(MergeCTable) THEN MergeCTable[tr] ELSE tree_complexity(tr)
    IN  Entry(tr, b, [s |-> 0 - (b[1] + b[2]), c |-> c, d |-> 0])

MergeSet(S) == StoreInsertRange(<< >>, SeqOfSet({ MergeEntry(tr) : tr \in S }))

\* The candidates close_deme hands over: without the dominated ones when
\* the dominated are not included.
MergeCandidates(S, p) ==
    IF ~ p.include_dominated THEN remove_dominated(MergeSet(S), p.jobs)
    ELSE MergeSet(S)

\* merge_candidates(X) and then merge_candidates(Y): the stores they may
\* leave, and whether the bulk remove erased and the random eviction ran.
merge_twice(M, X, Y, p, n_exp) ==
    UNION { { [M |-> r2,
               trimmed |-> \/ merge_record(M, X, p, n_exp, FALSE).trimmed > 0
                           \/ merge_record(r1, Y, p, n_exp, FALSE).trimmed > 0,
               evicted |-> \/ merge_record(M, X, p, n_exp, FALSE).evicted > 0
                           \/ merge_record(r1, Y, p, n_exp, FALSE).evicted > 0] :
                r2 \in merge_candidates(r1, Y, p, n_exp) } :
            r1 \in merge_candidates(M, X, p, n_exp) }

\* A store as init leaves it, and two sets of candidates not in it.
InitMerge ==
    /\ params \in { q \in ParamSpace :
                      q.max_candidates < 0 /\ ~ q.revisit /\ ~ q.use_diversity_penalty }
    /\ empty_reps = {}
    /\ unscored = {}
    /\ Constructed
    /\ pc = "call"
    /\ \E part \in [1 .. MaxMerge -> { "M", "A", "B", "none" }] :
         \E M \in merge_candidates(<< >>, MergeSet({ tr \in 1 .. MaxMerge : part[tr] = "M" }),
                                    params, 0) :
           call = [op |-> "merge_pair", M |-> M,
                   A |-> MergeCandidates({ tr \in 1 .. MaxMerge : part[tr] = "A" }, params),
                   B |-> MergeCandidates({ tr \in 1 .. MaxMerge : part[tr] = "B" }, params),
                   ab |-> << >>, ba |-> << >>]

\* merge_candidates(A); merge_candidates(B)
ApplyMergeAB ==
    /\ call.op = "merge_pair"
    /\ call.ab = << >>
    /\ \E r \in merge_twice(call.M, call.A, call.B, params, 0) :
         call' = [call EXCEPT !.ab = << r >>]
    /\ UNCHANGED << params, empty_reps, unscored, metapop, n_evals,
                    n_expansions, evals_before, best_cscore, best_candidates,
                    visited, rep, deme, exemplar, pc, ret, selected, n_clears >>

\* merge_candidates(B); merge_candidates(A)
ApplyMergeBA ==
    /\ call.op = "merge_pair"
    /\ call.ba = << >>
    /\ \E r \in merge_twice(call.M, call.B, call.A, params, 0) :
         call' = [call EXCEPT !.ba = << r >>]
    /\ UNCHANGED << params, empty_reps, unscored, metapop, n_evals,
                    n_expansions, evals_before, best_cscore, best_candidates,
                    visited, rep, deme, exemplar, pc, ret, selected, n_clears >>

NextMerge == ApplyMergeAB \/ ApplyMergeBA

SpecMerge == InitMerge /\ [][NextMerge]_vars

---------------------------------------------------------------------------
(* Candidates with a behavioral score of two entries, for the Pareto filter
   applied directly. *)

SetBScores == [1 .. 2 -> 1 .. MaxSetVal]

\* The i-th candidate of a set, in the order of the set.
Candidate(i, b) == Entry(i, b, [s |-> 0 - i, c |-> 0, d |-> 0])

---------------------------------------------------------------------------
(* The trimming of close_deme applied directly to a sorted deme. *)

\* The instances of the trees 1..MaxPool, and one that was not scored.
TrimInstances == { Instance(tr, TRUE) : tr \in 1 .. MaxPool } \cup { Instance(1, FALSE) }

\* The deme after std::sort, of up to MaxTrim of these instances.
TrimDemes ==
    { d \in UNION { [1 .. n -> TrimInstances] : n \in 0 .. MaxTrim } :
        \A i, j \in 1 .. Len(d) : i < j => ~ cscore_greater(d[j].csc, d[i].csc) }

InitTrim ==
    /\ AtRest
    /\ \E d \in TrimDemes :
         call = [op |-> "trim_deme", deme |-> d, done |-> FALSE, res |-> << >>]

ApplyTrim ==
    /\ call.op = "trim_deme"
    /\ ~ call.done
    /\ call' = [call EXCEPT !.done = TRUE, !.res = trim_deme(call.deme)]
    /\ UNCHANGED << params, empty_reps, unscored, metapop, n_evals,
                    n_expansions, evals_before, best_cscore, best_candidates,
                    visited, rep, deme, exemplar, pc, ret, selected, n_clears >>

NextTrim == ApplyTrim

SpecTrim == InitTrim /\ [][NextTrim]_vars

---------------------------------------------------------------------------
(* merge_nondominated applied directly to a store and a set of candidates,
   neither holding a dominated entry. *)

\* No entry of bcv dominates another, whichever way round the order is read.
Antichain(bcv) ==
    \A i, j \in 1 .. Len(bcv) :
       i # j => dominates(get_bscore(bcv[i]), get_bscore(bcv[j])) = Indeterminate

\* The candidates numbered from k + 1 on.
Renumbered(bcv, k) ==
    [i \in 1 .. Len(bcv) |->
       Entry(k + i, get_bscore(bcv[i]), [s |-> 0 - (k + i), c |-> 0, d |-> 0])]

NondominatedSets ==
    { bcs \in UNION { { [i \in 1 .. n |-> Candidate(i, bs[i])] :
                          bs \in [1 .. n -> SetBScores] } : n \in 0 .. MaxNd } :
        Antichain(bcs) }

InitNondominated ==
    /\ AtRest
    /\ \E M \in NondominatedSets, S \in NondominatedSets, jobs \in {1, 2} :
         call = [op |-> "merge_nondominated", M |-> M,
                 bcs |-> Renumbered(S, MaxNd), jobs |-> jobs,
                 done |-> FALSE, res |-> << >>]

ApplyMergeNondominated ==
    /\ call.op = "merge_nondominated"
    /\ ~ call.done
    /\ call' = [call EXCEPT
                  !.done = TRUE,
                  !.res = merge_nondominated(call.M, call.bcs, call.jobs)]
    /\ UNCHANGED << params, empty_reps, unscored, metapop, n_evals,
                    n_expansions, evals_before, best_cscore, best_candidates,
                    visited, rep, deme, exemplar, pc, ret, selected, n_clears >>

NextNondominated == ApplyMergeNondominated

SpecNondominated == InitNondominated /\ [][NextNondominated]_vars

---------------------------------------------------------------------------
(* remove_dominated applied directly to a set of candidates. *)

CandidateSets ==
    UNION { { [i \in 1 .. n |-> Candidate(i, bs[i])] : bs \in [1 .. n -> SetBScores] } :
              n \in 0 .. MaxSet }

InitPareto ==
    /\ AtRest
    /\ \E bcs \in CandidateSets, jobs \in {1, 2} :
         call = [op |-> "remove_dominated", bcs |-> bcs, jobs |-> jobs,
                 done |-> FALSE, res |-> << >>]

ApplyRemoveDominated ==
    /\ call.op = "remove_dominated"
    /\ ~ call.done
    /\ call' = [call EXCEPT !.done = TRUE,
                            !.res = remove_dominated(call.bcs, call.jobs)]
    /\ UNCHANGED << params, empty_reps, unscored, metapop, n_evals, n_expansions,
                    evals_before, best_cscore, best_candidates, visited, rep,
                    deme, exemplar, pc, ret, selected, n_clears >>

NextPareto == ApplyRemoveDominated

SpecPareto == InitPareto /\ [][NextPareto]_vars

---------------------------------------------------------------------------
(* get_nondominated_disjoint_rec and get_nondominated_rec applied directly,
   with several jobs, to two sets neither of which holds a dominated entry;
   an entry may come without behavioral score. *)

MaxRefine == 3        \* entries of each of the two sets
MaxJobs == 3          \* jobs handed to the recursion

RefineBScores == SetBScores \cup { << >> }

\* The sets of up to m entries none of which dominates another.
RefineSets(m) ==
    { bcs \in UNION { { [i \in 1 .. n |-> Candidate(i, bs[i])] :
                          bs \in [1 .. n -> RefineBScores] } : n \in 0 .. m } :
        Antichain(bcs) }

InitRefine ==
    /\ AtRest
    /\ \E bcv1 \in RefineSets(MaxRefine), S \in RefineSets(MaxRefine),
          jobs \in 1 .. MaxJobs :
         call = [op |-> "get_nondominated", bcv1 |-> bcv1,
                 bcv2 |-> Renumbered(S, MaxRefine), jobs |-> jobs,
                 disjoint |-> << >>, rec |-> << >>]

\* get_nondominated_disjoint_rec(bcv1, bcv2, jobs)
ApplyDisjointRec ==
    /\ call.op = "get_nondominated"
    /\ call.disjoint = << >>
    /\ call' = [call EXCEPT
                  !.disjoint = << get_nondominated_disjoint_rec(
                                     call.bcv1, call.bcv2, call.jobs) >>]
    /\ UNCHANGED << params, empty_reps, unscored, metapop, n_evals,
                    n_expansions, evals_before, best_cscore, best_candidates,
                    visited, rep, deme, exemplar, pc, ret, selected, n_clears >>

\* get_nondominated_rec(bcv, jobs) on the two sets put end to end
ApplyNondominatedRec ==
    /\ call.op = "get_nondominated"
    /\ call.rec = << >>
    /\ call' = [call EXCEPT
                  !.rec = << get_nondominated_rec(call.bcv1 \o call.bcv2,
                                                  call.jobs) >>]
    /\ UNCHANGED << params, empty_reps, unscored, metapop, n_evals,
                    n_expansions, evals_before, best_cscore, best_candidates,
                    visited, rep, deme, exemplar, pc, ret, selected, n_clears >>

NextRefine == ApplyDisjointRec \/ ApplyNondominatedRec

SpecRefine == InitRefine /\ [][NextRefine]_vars

---------------------------------------------------------------------------
(* close_deme from the extraction of the candidates to the merge, with the
   tasks it forks and joins on the way: the workers of the two for_each, and
   the task std::async starts in remove_dominated and in merge_nondominated
   when there are several jobs. *)

\* a join that does not wait for the tasks
joined_at_once(tasks) == TRUE

\* for_each has returned, task.get() has returned: no task is running
joined(tasks) == tasks = {}

\* The candidates close_deme makes of pot_candidates.
close_candidates(pot, M, p) ==
    LET new_candidates == get_new_candidates(M, compute_bscore(pot, p))
    IN  IF ~ p.include_dominated
        THEN remove_dominated(new_candidates, p.jobs)
        ELSE new_candidates

InitClose ==
    /\ params \in { DefaultParams,
                     [DefaultParams EXCEPT !.include_dominated = FALSE, !.jobs = 2] }
    /\ empty_reps = {}
    /\ unscored = {}
    /\ metapop \in { << >>, << Entry(3, bscorer(3), cscorer(3)) >> }
    /\ best_cscore = update_best_candidates(worst_composite_score, {}, metapop)[1]
    /\ best_candidates = update_best_candidates(worst_composite_score, {}, metapop)[2]
    /\ n_evals = 0 /\ n_expansions = 0 /\ evals_before = 0
    /\ visited = {} /\ rep = NULL /\ deme = NULL /\ exemplar = NoExemplar
    /\ ret = "none" /\ selected = NoTree /\ n_clears = 0
    /\ pc = "call"
    /\ \E d \in SortedDemesUpTo(MaxExtract) :
         call = [op |-> "select_candidates", deme |-> d, n |-> Len(d),
                 V |-> {}, max |-> 0 - 1, todo |-> 1 .. Len(d),
                 pot |-> {}, w |-> [k \in Workers |-> WorkerIdle],
                 returned |-> FALSE, tasks |-> {}]

\* The second for_each starts, where behavioral scores are needed.
CloseComputeBscore ==
    /\ pc = "call"
    /\ ExtractDone
    /\ pc' = "compute_bscore"
    /\ call' = [call EXCEPT
                  !.tasks = IF (~ params.include_dominated \/ params.use_diversity_penalty)
                               /\ call.pot # {}
                            THEN Workers ELSE {}]
    /\ UNCHANGED << params, empty_reps, unscored, metapop, n_evals,
                    n_expansions, evals_before, best_cscore, best_candidates,
                    visited, rep, deme, exemplar, ret, selected, n_clears >>

\* A worker or an asynchronous task comes to its end.
CloseTaskReturns(k) ==
    /\ pc \in { "compute_bscore", "remove_dominated", "merge_candidates" }
    /\ k \in call.tasks
    /\ call' = [call EXCEPT !.tasks = @ \ {k}]
    /\ UNCHANGED << params, empty_reps, unscored, metapop, n_evals,
                    n_expansions, evals_before, best_cscore, best_candidates,
                    visited, rep, deme, exemplar, pc, ret, selected, n_clears >>

\* The second for_each has returned; remove_dominated starts its task.
CloseRemoveDominated ==
    /\ pc = "compute_bscore"
    /\ joined(call.tasks)
    /\ pc' = "remove_dominated"
    /\ call' = [call EXCEPT
                  !.tasks = IF ~ params.include_dominated /\ params.jobs > 1
                               /\ Cardinality(call.pot) >= 2
                            THEN {1} ELSE {}]
    /\ UNCHANGED << params, empty_reps, unscored, metapop, n_evals,
                    n_expansions, evals_before, best_cscore, best_candidates,
                    visited, rep, deme, exemplar, ret, selected, n_clears >>

\* remove_dominated has returned; update_best_candidates(candidates), and
\* merge_candidates starts the task of merge_nondominated.
CloseUpdateBest ==
    /\ pc = "remove_dominated"
    /\ joined(call.tasks)
    /\ LET candidates == close_candidates(call.pot, metapop, params)
           best == update_best_candidates(best_cscore, best_candidates, candidates)
       IN  /\ best_cscore' = best[1]
           /\ best_candidates' = best[2]
           /\ call' = [call EXCEPT
                         !.tasks = IF ~ params.include_dominated /\ params.jobs > 1
                                      /\ Len(candidates) >= 2 /\ metapop # << >>
                                   THEN {1} ELSE {}]
    /\ pc' = "merge_candidates"
    /\ UNCHANGED << params, empty_reps, unscored, metapop, n_evals,
                    n_expansions, evals_before, visited, rep, deme, exemplar,
                    ret, selected, n_clears >>

\* The erase and insert of the merge, the bulk remove and the eviction.
CloseMerge ==
    /\ pc = "merge_candidates"
    /\ joined(call.tasks)
    /\ metapop' \in merge_candidates(metapop,
                                     close_candidates(call.pot, metapop, params),
                                     params, n_expansions)
    /\ pc' = "closed"
    /\ UNCHANGED << params, empty_reps, unscored, n_evals, n_expansions,
                    evals_before, best_cscore, best_candidates, visited, rep,
                    deme, exemplar, ret, selected, n_clears, call >>

NextClose ==
    \/ NextExtract
    \/ CloseComputeBscore
    \/ \E k \in Workers : CloseTaskReturns(k)
    \/ CloseRemoveDominated
    \/ CloseUpdateBest
    \/ CloseMerge

SpecClose == InitClose /\ [][NextClose]_vars

---------------------------------------------------------------------------
(* The properties checked. *)

\* B1 strictly better than B2, lower entries being better: lower in at
\* least one coordinate and higher in none.
StrictlyBetter(b1, b2) ==
    /\ \E i \in 1 .. Len(b1) : b1[i] < b2[i]
    /\ ~ \E i \in 1 .. Len(b1) : b1[i] > b2[i]

AtBoundary == pc = "idle"

\* C1: no two entries of the metapopulation hold the same tree, after init
\* and after any sequence of expand cycles.
C1_UniqueTrees ==
    \A i, j \in 1 .. Len(metapop) :
       i # j => metapop[i].tree # metapop[j].tree

\* C1 witness: two expansions with the diversity penalty have re-scored the
\* metapopulation and merged new candidates into it.
C1_Witness ==
    /\ AtBoundary
    /\ params.use_diversity_penalty
    /\ n_expansions = 2
    /\ Len(metapop) >= 3
    /\ \E i, j \in 1 .. Len(metapop) : metapop[i].d > 0 /\ metapop[j].d = 0

\* C2: with include_dominated = false, after init and after every merge no
\* entry of the metapopulation is strictly dominated by another entry.
C2_NoDominatedEntry ==
    (AtBoundary /\ ~ params.include_dominated) =>
       \A i, j \in 1 .. Len(metapop) :
          i # j => ~ StrictlyBetter(metapop[i].bs, metapop[j].bs)

\* C3: with revisit = true and every tree of the metapopulation yielding an
\* empty representation, one call of create_deme clears the visited set
\* once and no more.
C3_ClearsVisitedOnce ==
    (params.revisit /\ TreesOf(metapop) \subseteq empty_reps) => n_clears <= 1

\* C4: the representation and the deme are null after expand on every exit
\* path, the optimiser throwing included.
C4_ReleasedAfterExpand ==
    AtBoundary => (rep = NULL /\ deme = NULL)

\* C5: on two non-empty behavioral scores of equal length dominates returns
\* strictly better iff x is lower in at least one coordinate and higher in
\* none, strictly worse iff it is higher in one and lower in none, and
\* incomparable otherwise.
C5_LowerIsBetter ==
    (/\ call.op = "dominates"
     /\ call.res # "pending"
     /\ call.x # << >>
     /\ call.y # << >>) =>
       call.res = IF StrictlyBetter(call.x, call.y) THEN TriTrue
                  ELSE IF StrictlyBetter(call.y, call.x) THEN TriFalse
                  ELSE Indeterminate

\* C6: dominates(a, b) is strictly better iff dominates(b, a) is strictly
\* worse, for all behavioral scores, the empty ones included.
C6_Antisymmetry ==
    (/\ call.op = "dominates"
     /\ call.res # "pending"
     /\ call.rev # "pending") =>
       (call.res = TriTrue <=> call.rev = TriFalse)

\* C6 witness: an empty score against a non-empty one, decided both ways.
C6_Witness ==
    /\ call.op = "dominates"
    /\ call.x = << >>
    /\ Len(call.y) > 1
    /\ call.res = TriFalse
    /\ call.rev = TriTrue

\* C7: remove_dominated keeps exactly the members that no other member
\* strictly dominates, lower entries being better.
C7_KeepsParetoFront ==
    (call.op = "remove_dominated" /\ call.done) =>
       TreesOf(call.res) =
          { call.bcs[i].tree : i \in
              { k \in 1 .. Len(call.bcs) :
                  ~ \E j \in 1 .. Len(call.bcs) :
                       j # k /\ StrictlyBetter(call.bcs[j].bs, call.bcs[k].bs) } }

C9_VisitedKept ==
    [][ /\ \/ visited \subseteq visited'
           \/ params.revisit /\ visited' = {} /\ pc = "create_deme"
        /\ (pc = "optimize_deme" /\ pc' = "idle" /\ ret' # "threw") =>
              exemplar.tree \in visited'
        /\ (pc = "create_deme" /\ selected' # NoTree /\ selected' \in empty_reps) =>
              selected' \in visited' ]_vars

\* C9 witness: without revisit, two exemplars were used, one with an empty
\* representation, and both are visited.
C9_Witness ==
    /\ AtBoundary
    /\ ~ params.revisit
    /\ n_expansions >= 1
    /\ rep = NULL
    /\ exemplar.tree \in visited
    /\ \E t \in visited : t \in empty_reps
    /\ Cardinality(visited) >= 2

\* C10: the best raw score seen never decreases, over init and over every
\* expand cycle.
C10_BestNeverDecreases ==
    [][ best_cscore'.s >= best_cscore.s ]_vars

\* C10 witness: the best record holds candidates of a deme (their behavioral
\* score was never computed) that score above every entry init inserted.
C10_Witness ==
    /\ AtBoundary
    /\ n_expansions >= 1
    /\ best_candidates # {}
    /\ \A b \in best_candidates : b.bs = << >> /\ b.s = best_cscore.s
    /\ \E i \in 1 .. Len(metapop) : metapop[i].bs # << >>
    /\ \A i \in 1 .. Len(metapop) :
          metapop[i].bs # << >> => metapop[i].s < best_cscore.s


\* C11: after every call of merge_candidates (by init and by close_deme)
\* the metapopulation holds no more entries than the population cap of the
\* current number of expansions.
C11_WithinCap ==
    [][ ((pc = "construct" \/ pc = "optimize_deme") /\ pc' = "idle"
           /\ ret' # "threw") =>
          Len(metapop') <= popsz_cap(n_expansions') ]_vars

\* C11 witness: a merge by close_deme evicted an entry and left the
\* metapopulation at the cap.
C11_Witness ==
    /\ AtBoundary
    /\ n_expansions >= 1
    /\ call.op = "merge_candidates"
    /\ call.evicted >= 1
    /\ Len(metapop) = popsz_cap(n_expansions)


C13_NoInvalidScoreInStore ==
    \A i \in 1 .. Len(metapop) : metapop[i].s > worst_score


\* C14: when create_deme fails, because the metapopulation is empty or
\* because every tree is visited and revisit is off, expand returns with
\* the termination flag set.
C14_FailureSetsFlag ==
    [][ /\ (pc = "idle" /\ metapop = << >> /\ rep = NULL /\ deme = NULL) =>
              ret' = "true"
        /\ (pc = "create_deme" /\ pc' = "idle") => ret' = "true" ]_vars


\* C15: with revisit off and every tree of the metapopulation yielding an
\* empty representation, each pass of create_deme takes a tree of the
\* metapopulation not yet visited and marks it, so that no tree is tried
\* twice and the passes are at most one more than the trees; the pass that
\* finds none returns failure, with every tree of the metapopulation visited.
C15_ExhaustsWithoutRevisit ==
    [][ (pc = "create_deme" /\ ~ params.revisit
          /\ TreesOf(metapop) \subseteq empty_reps) =>
         /\ pc' # "aborted"
         /\ TreesOf(metapop') = TreesOf(metapop)
         /\ (selected' # NoTree) =>
               /\ selected' \in TreesOf(metapop) \ visited
               /\ visited' = visited \cup {selected'}
               /\ pc' = "create_deme"
         /\ (selected' = NoTree) =>
               /\ pc' = "idle"
               /\ ret' = "false"
               /\ TreesOf(metapop') \subseteq visited' ]_vars


\* C16: dominates called on two non-empty behavioral scores of different
\* lengths fails; it returns no verdict.
C16_MismatchFails ==
    (call.op = "dominates_mismatched" /\ call.res # "pending") =>
       call.res = "aborted"


\* C17: dominates returns indeterminate when both behavioral scores are
\* empty; when only y is empty it returns true (x dominates) and when only x
\* is empty it returns false (y dominates).
C17_EmptyCases ==
    (/\ call.op = "dominates"
     /\ call.res # "pending"
     /\ (call.x = << >> \/ call.y = << >>)) =>
       call.res = IF call.x = << >> /\ call.y = << >> THEN Indeterminate
                  ELSE IF call.y = << >> THEN TriTrue
                  ELSE TriFalse

\* C17 witness: a non-empty score was found to dominate the empty one.
C17_Witness ==
    /\ call.op = "dominates"
    /\ call.x # << >>
    /\ call.y = << >>
    /\ call.res = TriTrue


StrictlyBetterScore(a, b) == a.s > b.s \/ (a.s = b.s /\ a.c < b.c)

\* C19: update_best_candidates leaves as best record the best score and
\* complexity among the old record and the candidates; a candidate strictly
\* better than the record replaces it and clears the best-set, so that the
\* best-set is then the candidates equal to the new record; candidates equal
\* to an unreplaced record are added to the best-set; all other candidates
\* change nothing.
C19_UpdateBest ==
    (call.op = "update_best_candidates" /\ call.done) =>
       LET cands == { call.candidates[i] : i \in 1 .. Len(call.candidates) }
           new == call.res[1]
           replaced == \E e \in cands : StrictlyBetterScore(e, call.best)
           equal == { e \in cands : e.s = new.s /\ e.c = new.c }
       IN  /\ ~ \E e \in cands : StrictlyBetterScore(e, new)
           /\ replaced => \E e \in cands : get_composite_score(e) = new
           /\ ~ replaced => new = call.best
           /\ { b.tree : b \in call.res[2] } =
                 { e.tree : e \in equal }
                   \cup (IF replaced THEN {} ELSE { b.tree : b \in call.bests })

\* C19 witness: a strictly better candidate replaced a record whose best-set
\* held two trees, and the best-set is now that candidate alone, the other
\* candidates having changed nothing.
C19_Witness ==
    /\ call.op = "update_best_candidates"
    /\ call.done
    /\ Cardinality(call.bests) = 2
    /\ Len(call.candidates) >= 3
    /\ call.res[1] # call.best
    /\ Cardinality(call.res[2]) = 1


C21_PendingWithinMax ==
    (ExtractDone /\ call.max >= 0) => Cardinality(call.pot) <= call.max


\* C22: the random eviction erases exactly |M| - cap entries when |M| > cap
\* and none otherwise, every erased entry stands at an index >= OFFSET, and
\* the leading OFFSET entries are the same before and after.
C22_EvictionExact ==
    (call.op = "size_cap" /\ call.applied >= 1) =>
        LET T == call.trimmed
            R == call.first
            cap == popsz_cap(call.n)
            Kept(e) == e.tree \in TreesOf(R)
        IN  /\ Len(R) = IF Len(T) > cap THEN cap ELSE Len(T)
            /\ R = SelectSeq(T, Kept)
            /\ \A i \in 1 .. Len(T) : ~ Kept(T[i]) => i - 1 >= OFFSET
            /\ \A i \in 1 .. Min(OFFSET, Len(T)) : i <= Len(R) /\ R[i] = T[i]

\* C22 witness: two entries were evicted from a store two above the cap.
C22_Witness ==
    /\ call.op = "size_cap"
    /\ call.applied >= 1
    /\ Len(call.trimmed) = popsz_cap(call.n) + 2
    /\ Len(call.first) = popsz_cap(call.n)

\* C23: the size cap (bulk remove, then eviction) applied a second time
\* right after a first, with the same number of expansions, changes nothing.
C23_SizeCapIdempotent ==
    (call.op = "size_cap" /\ call.applied = 2) => call.second = call.first

\* C23 witness: the first application both trimmed and evicted, and the
\* second was made.
C23_Witness ==
    /\ call.op = "size_cap"
    /\ call.applied = 2
    /\ Len(call.trimmed) < Len(call.M)
    /\ Len(call.first) < Len(call.trimmed)


EntriesOf(seq) == { seq[i] : i \in 1 .. Len(seq) }

\* No two candidates of A and B have the same weighted score.
NoCandidateTie(A, B) ==
    \A x, y \in EntriesOf(A) \cup EntriesOf(B) :
       x # y => get_weighted_score(get_composite_score(x))
                  # get_weighted_score(get_composite_score(y))

\* C24: where no two candidates tie on the weighted score and the random
\* eviction does not run, merging A and then B leaves the same entries in
\* the metapopulation as merging B and then A.
C24_MergeCommutes ==
    (/\ call.op = "merge_pair"
     /\ call.ab # << >>
     /\ call.ba # << >>
     /\ NoCandidateTie(call.A, call.B)
     /\ ~ call.ab[1].evicted
     /\ ~ call.ba[1].evicted)
    => EntriesOf(call.ab[1].M) = EntriesOf(call.ba[1].M)

\* C24 amended: the same, provided that where the dominated candidates are
\* filtered out the bulk remove of the low scores erases nothing either.
C24_MergeCommutesUntrimmed ==
    (/\ call.op = "merge_pair"
     /\ call.ab # << >>
     /\ call.ba # << >>
     /\ ~ params.include_dominated =>
           (~ call.ab[1].trimmed /\ ~ call.ba[1].trimmed))
    => C24_MergeCommutes

\* C24 witness: both orders were merged into a store that the bulk remove
\* trimmed, the candidates not tying and no entry evicted.
C24_Witness ==
    /\ call.op = "merge_pair"
    /\ call.ab # << >>
    /\ call.ba # << >>
    /\ call.A # << >>
    /\ call.B # << >>
    /\ NoCandidateTie(call.A, call.B)
    /\ params.include_dominated
    /\ call.ab[1].trimmed
    /\ ~ call.ab[1].evicted
    /\ ~ call.ba[1].evicted

\* C24 witness of the filtered case: both orders merged with the dominated
\* candidates filtered out, an entry of the store erased as dominated.
C24_WitnessFiltered ==
    /\ call.op = "merge_pair"
    /\ call.ab # << >>
    /\ call.ba # << >>
    /\ call.A # << >>
    /\ call.B # << >>
    /\ NoCandidateTie(call.A, call.B)
    /\ ~ params.include_dominated
    /\ ~ call.ab[1].trimmed /\ ~ call.ba[1].trimmed
    /\ ~ call.ab[1].evicted /\ ~ call.ba[1].evicted
    /\ ~ (TreesOf(call.M) \subseteq TreesOf(call.ab[1].M))


\* C26: the trimming of close_deme, on a deme of more than MIN_POOL_SIZE
\* instances, removes exactly the instances whose weighted score is below
\* the top score minus the useful range.
C26_DemeTrimExact ==
    (call.op = "trim_deme" /\ call.done) =>
        LET d == call.deme
            s_floor == get_weighted_score(d[1].csc) - useful_score_range
            Stays(inst) == get_weighted_score(inst.csc) >= s_floor
        IN  IF MIN_POOL_SIZE < Len(d)
            THEN call.res = SelectSeq(d, Stays)
            ELSE call.res = d

\* C26 witness: a deme above MIN_POOL_SIZE lost some of its instances and
\* kept more than one.
C26_Witness ==
    /\ call.op = "trim_deme"
    /\ call.done
    /\ MIN_POOL_SIZE < Len(call.deme)
    /\ Len(call.res) < Len(call.deme)
    /\ Len(call.res) > 1

\* The trees select_candidates is to keep of the instances 1..n of deme d.
ExpectedTrees(d, n, V) ==
    { d[i].tree : i \in { k \in 1 .. n : d[k].csc.s > worst_score /\ d[k].tree \notin V } }

C28_MergeKeepsParetoFront ==
    (call.op = "merge_nondominated" /\ call.done) =>
        LET all == call.M \o call.bcs
        IN  TreesOf(call.res) =
              { all[k].tree : k \in
                  { i \in 1 .. Len(all) :
                      ~ \E j \in 1 .. Len(all) :
                           j # i /\ StrictlyBetter(all[j].bs, all[i].bs) } }

C30_SumPositive ==
    pc = "create_deme" =>
        LET M1 == IF params.use_diversity_penalty
                  THEN diversity_pool(metapop, exemplar, << >>)
                  ELSE metapop
            shortcut == Len(metapop) = 1 /\ metapop[1].tree \notin visited
        IN  (~ shortcut /\ found_exemplar(M1, visited))
               => probs_positive(M1, visited) # {}

\* select_exemplar goes past its shortcut for a single entry not visited.
PastShortcut == ~ (Len(metapop) = 1 /\ metapop[1].tree \notin visited)

\* C31: with the diversity penalty enabled and a previous exemplar present,
\* select_exemplar (past its shortcut for a single entry) gives every entry
\* with a behavioral score the penalty 1 / (1 + L1 distance to the behavioral
\* score of the previous exemplar), whatever penalty it carried, and leaves
\* the metapopulation sorted; distance 0 gives 1 and distance 4 gives 0.2.
C31_DiversityPenalty ==
    [][ (/\ pc = "create_deme"
         /\ pc' # "aborted"
         /\ params.use_diversity_penalty
         /\ exemplar # NoExemplar
         /\ PastShortcut) =>
          /\ \A i \in 1 .. Len(metapop) :
                metapop[i].bs # << >> =>
                  \E j \in 1 .. Len(metapop') :
                     /\ metapop'[j].tree = metapop[i].tree
                     /\ metapop'[j].d * (1 + lp_distance(exemplar.bs, metapop[i].bs))
                          <= WUnit
                     /\ (metapop'[j].d + 1) * (1 + lp_distance(exemplar.bs, metapop[i].bs))
                          > WUnit
                     /\ (metapop[i].bs = exemplar.bs => metapop'[j].d = WUnit)
                     /\ (lp_distance(exemplar.bs, metapop[i].bs) = 4
                           => 5 * metapop'[j].d = WUnit)
          /\ \A i, j \in 1 .. Len(metapop') :
                i < j => get_weighted_score(get_composite_score(metapop'[i]))
                           >= get_weighted_score(get_composite_score(metapop'[j])) ]_vars

\* C31 witness: the selection of the second expansion has re-scored the
\* metapopulation: one entry carries the penalty 0.2 and stands at distance 4
\* of another that carries the penalty 1.
C31_Witness ==
    /\ pc = "optimize_deme"
    /\ params.use_diversity_penalty
    /\ n_expansions = 2
    /\ \E i, j \in 1 .. Len(metapop) :
          /\ 5 * metapop[i].d = WUnit
          /\ metapop[j].d = WUnit
          /\ lp_distance(metapop[i].bs, metapop[j].bs) = 4

\* C32: with the diversity penalty enabled, select_exemplar applies no
\* penalty while there is no previous exemplar (the first selection after
\* init), and an entry without behavioral score keeps the penalty 0 without
\* the selection aborting.
C32_NoPenaltyWithoutPrevious ==
    [][ (pc = "create_deme" /\ params.use_diversity_penalty) =>
          /\ (exemplar = NoExemplar /\ pc' # "aborted") => metapop' = metapop
          /\ \A i \in 1 .. Len(metapop) :
                metapop[i].bs = << >> =>
                  /\ pc' # "aborted"
                  /\ \E j \in 1 .. Len(metapop') :
                        metapop'[j].tree = metapop[i].tree /\ metapop'[j].d = 0 ]_vars

\* An entry without its diversity penalty.
Unpenalized(M) ==
    { [tree |-> M[i].tree, bs |-> M[i].bs, s |-> M[i].s, c |-> M[i].c] :
        i \in 1 .. Len(M) }

\* C39: select_exemplar changes nothing of the entries but their diversity
\* penalty: as many entries before and after, with the same trees, behavioral
\* scores, raw scores and complexities; it leaves the best record alone, and
\* the visited set changes during the selection loop only by what create_deme
\* itself does (an exemplar with an empty representation is marked, revisit
\* clears the set).
C39_OnlyPenaltyChanges ==
    [][ pc = "create_deme" =>
          /\ Len(metapop') = Len(metapop)
          /\ Unpenalized(metapop') = Unpenalized(metapop)
          /\ best_cscore' = best_cscore
          /\ best_candidates' = best_candidates
          /\ \/ visited' = visited
             \/ /\ selected' \in empty_reps
                /\ visited' = visited \cup {selected'}
             \/ /\ selected' = NoTree
                /\ params.revisit
                /\ visited' = {} ]_vars

\* C39 witness: a selection has given different penalties to the entries of
\* a metapopulation that holds a best record.
C39_Witness ==
    /\ pc = "optimize_deme"
    /\ params.use_diversity_penalty
    /\ best_candidates # {}
    /\ \E i, j \in 1 .. Len(metapop) :
          metapop[i].d > 0 /\ metapop[j].d > metapop[i].d

\* C40: _n_expansions grows by exactly 1 in an expand whose create_deme
\* succeeds and stays as it is in every other step; _n_evals grows by exactly
\* what the optimiser returned when optimize_deme returns, and stays as it is
\* when create_deme fails or the optimiser throws.
C40_CountersExact ==
    [][ /\ n_expansions' =
             IF pc = "create_deme" /\ pc' = "optimize_deme"
             THEN n_expansions + 1
             ELSE n_expansions
        /\ n_evals' =
             IF pc = "optimize_deme" /\ ret' # "threw"
             THEN n_evals + call'.evals
             ELSE n_evals ]_vars

\* C40 witness: one expansion was counted with the 2 evaluations the
\* optimiser returned, and the next expand found no exemplar and counted
\* nothing.
C40_Witness ==
    /\ AtBoundary
    /\ ret = "false"
    /\ selected = NoTree
    /\ n_expansions = 1
    /\ n_evals = 2
    /\ call.op = "merge_candidates"
    /\ "evals" \in DOMAIN call
    /\ call.evals = 2

\* C38: in every state, every tree of _best_candidates has exactly the raw
\* score and the complexity of _best_cscore.
C38_BestSetMatchesRecord ==
    \A b \in best_candidates :
       b.s = best_cscore.s /\ b.c = best_cscore.c

\* C38 witness: a deme has replaced the best record of init, and two trees
\* share the new best score and complexity.
C38_Witness ==
    /\ AtBoundary
    /\ n_expansions >= 1
    /\ Cardinality(best_candidates) >= 2
    /\ \E i \in 1 .. Len(metapop) :
          metapop[i].bs # << >> /\ metapop[i].s < best_cscore.s
    /\ \A b \in best_candidates : b.tree \notin visited

\* C37: after init and after every expand cycle, no entry of the
\* metapopulation has a raw score above that of the best record, nor the
\* same raw score with a lower complexity.
C37_BestBoundsStore ==
    AtBoundary =>
      \A i \in 1 .. Len(metapop) :
         \/ metapop[i].s < best_cscore.s
         \/ metapop[i].s = best_cscore.s /\ metapop[i].c >= best_cscore.c

\* C37 witness: a deme was merged, one of its candidates is in the
\* metapopulation with the raw score and complexity of the best record it
\* has set, and an entry of init with a lower raw score is still there.
C37_Witness ==
    /\ AtBoundary
    /\ n_expansions >= 1
    /\ call.op = "merge_candidates"
    /\ \E i, j \in 1 .. Len(metapop) :
          /\ metapop[i].tree \in call.candidates
          /\ metapop[i].s = best_cscore.s
          /\ metapop[i].c = best_cscore.c
          /\ metapop[j].tree \notin call.candidates
          /\ metapop[j].s < best_cscore.s

\* What create_deme and close_deme must leave alone when they refuse.
Untouched ==
    UNCHANGED << metapop, visited, best_cscore, best_candidates, n_evals,
                 n_expansions, evals_before, rep, deme, exemplar >>

\* C36: between operations _rep and _deme are both NULL or both set; an
\* expand whose create_deme finds a deme open returns false and changes
\* nothing, and so does close_deme called when no deme is open.
C36_DemeOpenOrClosed ==
    [][ /\ (rep = NULL) <=> (deme = NULL)
        /\ (rep' = NULL) <=> (deme' = NULL)
        /\ (pc = "idle" /\ rep # NULL /\ rep' # NULL) =>
              ret' = "false" /\ Untouched
        /\ (pc = "idle" /\ rep = NULL /\ pc' = "idle") =>
              ret' = "false" /\ Untouched ]_vars

\* C36 witness: the optimiser threw and left its deme open, and the next
\* expand was refused by create_deme.
C36_Witness ==
    /\ AtBoundary
    /\ rep # NULL
    /\ deme # NULL
    /\ ret = "false"
    /\ n_expansions >= 1

\* C35: close_deme marks the exemplar visited before it selects the
\* candidates, updates the best record from the candidates before it merges
\* them, and releases the representation and the deme at the end: the tree
\* of the exemplar is never a candidate of its own deme, and the best record
\* bounds every candidate, whether or not the merge kept it.
C35_CloseDemeOrder ==
    [][ (pc = "optimize_deme" /\ pc' = "idle" /\ ret' # "threw") =>
          /\ exemplar.tree \in visited'
          /\ exemplar.tree \notin call'.candidates
          /\ \A t \in call'.candidates :
                \/ cscorer(t).s < best_cscore'.s
                \/ cscorer(t).s = best_cscore'.s /\ cscorer(t).c >= best_cscore'.c
          /\ rep' = NULL
          /\ deme' = NULL ]_vars

\* C35 witness: the deme is closed and its exemplar visited; one of its
\* candidates is in the best set and not in the metapopulation.
C35_Witness ==
    /\ AtBoundary
    /\ n_expansions >= 1
    /\ rep = NULL
    /\ call.op = "merge_candidates"
    /\ exemplar.tree \in visited
    /\ \E b \in best_candidates :
          /\ b.tree \in call.candidates
          /\ b.tree \notin TreesOf(metapop)

\* C34: whatever the number of jobs, the parallel branches of
\* get_nondominated_disjoint_rec (on two sets neither of which holds a
\* dominated entry) and of get_nondominated_rec return the same sets as the
\* single-threaded branches.
C34_ParallelRefinesSequential ==
    /\ (call.op = "get_nondominated" /\ call.disjoint # << >>) =>
          LET par == call.disjoint[1]
              seq == get_nondominated_disjoint_rec(call.bcv1, call.bcv2, 1)
          IN  /\ TreesOf(par[1]) = TreesOf(seq[1])
              /\ TreesOf(par[2]) = TreesOf(seq[2])
              /\ Len(par[1]) = Len(seq[1])
              /\ Len(par[2]) = Len(seq[2])
    /\ (call.op = "get_nondominated" /\ call.rec # << >>) =>
          LET par == call.rec[1]
              seq == get_nondominated_rec(call.bcv1 \o call.bcv2, 1)
          IN  /\ TreesOf(par) = TreesOf(seq)
              /\ Len(par) = Len(seq)

\* C34 witness: with three jobs and three entries in the first set, the
\* first and the last entry of the first set each dominate an entry of the
\* second set that the other does not, and the intersection has removed both.
C34_Witness ==
    /\ call.op = "get_nondominated"
    /\ call.jobs = 3
    /\ Len(call.bcv1) = 3
    /\ call.disjoint # << >>
    /\ Len(call.disjoint[1][1]) = 3
    /\ \E i, j \in 1 .. Len(call.bcv2) :
          /\ i # j
          /\ dominates(call.bcv1[1].bs, call.bcv2[i].bs) = TriTrue
          /\ dominates(call.bcv1[1].bs, call.bcv2[j].bs) = Indeterminate
          /\ dominates(call.bcv1[3].bs, call.bcv2[j].bs) = TriTrue
          /\ dominates(call.bcv1[3].bs, call.bcv2[i].bs) = Indeterminate
          /\ call.bcv2[i].tree \notin TreesOf(call.disjoint[1][2])
          /\ call.bcv2[j].tree \notin TreesOf(call.disjoint[1][2])

\* A worker of for_each or an asynchronous task of the Pareto filter is
\* running.
TaskActive ==
    \/ call.tasks # {}
    \/ ~ call.returned
    \/ \E k \in Workers : call.w[k].pc # "idle"

\* C33: the metapopulation and the best record change only while no worker
\* task is running: update_best_candidates, the erase and insert of the
\* merge and the eviction come after the extraction, the behavioral scoring
\* and the Pareto filter of the cycle have joined, the best record first.
C33_MutationAfterJoin ==
    [][ /\ (best_cscore' # best_cscore \/ best_candidates' # best_candidates) =>
              ~ TaskActive /\ pc = "remove_dominated"
        /\ metapop' # metapop =>
              ~ TaskActive /\ pc = "merge_candidates" ]_vars

\* C33 witness: with two jobs and the Pareto filter, two candidates were
\* extracted, the best record was set from them and the merge has erased the
\* entry the metapopulation held.
C33_Witness ==
    /\ pc = "closed"
    /\ params.jobs = 2
    /\ Cardinality(call.pot) >= 2
    /\ metapop # << >>
    /\ 3 \notin TreesOf(metapop)
    /\ \E b \in best_candidates : b.tree \in { c.tree : c \in call.pot }

=============================================================================
